---- MODULE Spec2Model ----
(***************************************************************************)
(* Session / state-sync core of the Pre-Calc Placement Coach               *)
(* (src/pre_calc_placement_coach.jsx): the App component's conversation    *)
(* state, the handlers startSession, sendUser, resetSession, the drawer    *)
(* control and the settings form, together with the text helpers           *)
(* extractStateYaml and parseStageProgress.                                *)
(*                                                                         *)
(* Texts are TLA+ strings read character by character (SubSeq), so that    *)
(* trimming, case folding and the regular expressions of the source are    *)
(* computed rather than assumed.                                           *)
(***************************************************************************)
EXTENDS Integers, Sequences, FiniteSets, TLC

\* ------------------------------------------------------------------------
\* Characters and strings
\* ------------------------------------------------------------------------

LowerLetters == "abcdefghijklmnopqrstuvwxyz"
UpperLetters == "ABCDEFGHIJKLMNOPQRSTUVWXYZ"
Digits == "0123456789"

\* s[i] as a one-character string
At(s, i) == SubSeq(s, i, i)

CharsOf(s) == {At(s, i) : i \in 1..Len(s)}

\* JavaScript \s, restricted to the white space the inputs use
WhiteSpace == {" ", "\n", "\t", "\r"}

\* the line terminators after which ^ matches under the m flag
LineTerminators == {"\n", "\r"}

LowerChars == CharsOf(LowerLetters)

LetterChars == LowerChars \cup CharsOf(UpperLetters)

DigitChars == CharsOf(Digits)

IsLetter(c) == c \in LetterChars

IsDigit(c) == c \in DigitChars

\* JavaScript \w
IsWordChar(c) == IsLetter(c) \/ IsDigit(c) \/ c = "_"

\* the pattern p occurs in s at position i
StartsAt(s, i, p) ==
    /\ i >= 1
    /\ i + Len(p) - 1 <= Len(s)
    /\ SubSeq(s, i, i + Len(p) - 1) = p

SetMin(S) == CHOOSE x \in S : \A y \in S : x <= y

SetMax(S) == CHOOSE x \in S : \A y \in S : x >= y

\* the first position >= i of s that holds no white space (Len(s)+1 if none)
RECURSIVE SkipWs(_, _)
SkipWs(s, i) ==
    IF i > Len(s) \/ At(s, i) \notin WhiteSpace THEN i ELSE SkipWs(s, i + 1)

\* the last position <= i of s that holds no white space (0 if none)
RECURSIVE SkipWsBack(_, _)
SkipWsBack(s, i) ==
    IF i < 1 \/ At(s, i) \notin WhiteSpace THEN i ELSE SkipWsBack(s, i - 1)

\* the first position >= i of s that holds no ASCII letter
RECURSIVE SkipLetters(_, _)
SkipLetters(s, i) ==
    IF i > Len(s) \/ ~IsLetter(At(s, i)) THEN i ELSE SkipLetters(s, i + 1)

\* the first position >= i of s that holds no digit
RECURSIVE SkipDigits(_, _)
SkipDigits(s, i) ==
    IF i > Len(s) \/ ~IsDigit(At(s, i)) THEN i ELSE SkipDigits(s, i + 1)

\* String.prototype.trim
Trim(s) ==
    LET a == SkipWs(s, 1)
    IN IF a > Len(s) THEN "" ELSE SubSeq(s, a, SkipWsBack(s, Len(s)))

UpperChar(c) ==
    IF c \in LowerChars
    THEN At(UpperLetters, CHOOSE i \in 1..Len(LowerLetters) : At(LowerLetters, i) = c)
    ELSE c

\* case folding as the i flag of a regular expression applies it
RECURSIVE ToUpper(_)
ToUpper(s) ==
    IF s = "" THEN "" ELSE UpperChar(At(s, 1)) \o ToUpper(SubSeq(s, 2, Len(s)))

DigitValue(c) == (CHOOSE i \in 1..Len(Digits) : At(Digits, i) = c) - 1

\* Number(text) for a text of decimal digits
RECURSIVE ToNumber(_)
ToNumber(ds) ==
    IF ds = "" THEN 0
    ELSE 10 * ToNumber(SubSeq(ds, 1, Len(ds) - 1)) + DigitValue(At(ds, Len(ds)))

\* ------------------------------------------------------------------------
\* extractStateYaml and parseStageProgress
\* ------------------------------------------------------------------------

\* The backquote cannot be written in a TLA+ string: the model's texts
\* write it as a tilde, which no text uses for anything else.
Fence == "~~~"

\* the first position >= i of text at which a fence marker starts
\* (Len(text)+1 if none)
RECURSIVE FindFence(_, _)
FindFence(text, i) ==
    IF i > Len(text) \/ StartsAt(text, i, Fence) THEN i ELSE FindFence(text, i + 1)

\* /```[a-zA-Z]*\n([\s\S]*?)```/ matches at position p: a fence, an optional
\* language tag, a line feed and, somewhere after it, a closing fence
BlockOpensAt(text, p) ==
    /\ StartsAt(text, p, Fence)
    /\ LET n == SkipLetters(text, p + 3)
       IN /\ n <= Len(text)
          /\ At(text, n) = "\n"
          /\ FindFence(text, n + 1) <= Len(text)

\* the first position >= i at which the block pattern matches
\* (Len(text)+1 if none)
RECURSIVE FindBlock(_, _)
FindBlock(text, i) ==
    IF i > Len(text) \/ BlockOpensAt(text, i) THEN i ELSE FindBlock(text, i + 1)

\* /^\s*STATE\s*:/m.test(block)
HasStateLine(block) ==
    \E i \in 1..Len(block) :
        /\ i = 1 \/ At(block, i - 1) \in LineTerminators
        /\ LET j == SkipWs(block, i)
               k == SkipWs(block, j + 5)
           IN /\ StartsAt(block, j, "STATE")
              /\ k <= Len(block)
              /\ At(block, k) = ":"

\* variant of the loop that keeps the first qualifying block it meets
RECURSIVE ScanBlocksFirst(_, _, _)
ScanBlocksFirst(text, lastIndex, lastFound) ==
    LET p == FindBlock(text, lastIndex)
    IN IF p > Len(text) THEN lastFound
       ELSE LET c == SkipLetters(text, p + 3) + 1
                e == FindFence(text, c)
                block == SubSeq(text, c, e - 1)
            IN ScanBlocksFirst(text, e + 3,
                               IF HasStateLine(block) /\ ~lastFound.found
                               THEN [found |-> TRUE, text |-> Trim(block)]
                               ELSE lastFound)

\* the while loop of extractStateYaml: codeBlockRegex.exec from lastIndex
RECURSIVE ScanBlocks(_, _, _)
ScanBlocks(text, lastIndex, lastFound) ==
    LET p == FindBlock(text, lastIndex)
    IN IF p > Len(text) THEN lastFound
       ELSE LET c == SkipLetters(text, p + 3) + 1
                e == FindFence(text, c)
                block == SubSeq(text, c, e - 1)
            IN ScanBlocks(text, e + 3,
                          IF HasStateLine(block)
                          THEN [found |-> TRUE, text |-> Trim(block)]
                          ELSE lastFound)

\* extractStateYaml(text): found = FALSE stands for null
ExtractStateYaml(text) == ScanBlocks(text, 1, [found |-> FALSE, text |-> ""])

\* if (yaml): a string that is neither null nor empty
Truthy(yaml) == yaml.found /\ yaml.text # ""

DefaultStagesTotal == 8

\* an optional integer: <<>> stands for null
None == <<>>

Some(n) == <<n>>

\* the first position >= i of s that holds a closing brace (Len(s)+1 if none)
RECURSIVE FindClose(_, _)
FindClose(s, i) ==
    IF i > Len(s) \/ At(s, i) = "}" THEN i ELSE FindClose(s, i + 1)

\* the positions q at which /progress:\s*{[^}]*KEY\s*(\d+)/ can find KEY when
\* "progress:" is at p: after the opening brace, no closing brace in between,
\* and a digit after optional white space
KeyHits(yamlText, p, key) ==
    LET b == SkipWs(yamlText, p + 9)
    IN IF ~StartsAt(yamlText, p, "progress:") \/ b > Len(yamlText) \/ At(yamlText, b) # "{"
       THEN {}
       ELSE {q \in (b + 1)..FindClose(yamlText, b + 1) :
                /\ StartsAt(yamlText, q, key)
                /\ LET d == SkipWs(yamlText, q + Len(key))
                   IN d <= Len(yamlText) /\ IsDigit(At(yamlText, d))}

\* variant that looks for KEY anywhere after the first "progress:"
FieldCaptureAnywhere(yamlText, key) ==
    LET ps == {p \in 1..Len(yamlText) : StartsAt(yamlText, p, "progress:")}
        qs == {q \in 1..Len(yamlText) :
                  /\ ps # {} /\ q > SetMin(ps)
                  /\ StartsAt(yamlText, q, key)
                  /\ LET d == SkipWs(yamlText, q + Len(key))
                     IN d <= Len(yamlText) /\ IsDigit(At(yamlText, d))}
    IN IF qs = {} THEN None
       ELSE LET d == SkipWs(yamlText, SetMax(qs) + Len(key))
            IN Some(ToNumber(SubSeq(yamlText, d, SkipDigits(yamlText, d) - 1)))

\* the capture group of the match the regular expression engine returns:
\* the leftmost "progress:" that can match and, [^}]* being greedy, the
\* last KEY it can reach
FieldCapture(yamlText, key) ==
    LET ps == {p \in 1..Len(yamlText) : KeyHits(yamlText, p, key) # {}}
    IN IF ps = {} THEN None
       ELSE LET q == SetMax(KeyHits(yamlText, SetMin(ps), key))
                d == SkipWs(yamlText, q + Len(key))
            IN Some(ToNumber(SubSeq(yamlText, d, SkipDigits(yamlText, d) - 1)))

\* parseStageProgress(yamlText)
ParseStageProgress(yamlText) ==
    IF yamlText = "" THEN [current |-> None, total |-> DefaultStagesTotal]
    ELSE LET m1 == FieldCapture(yamlText, "current_stage:")
             m2 == FieldCapture(yamlText, "stages_total:")
         IN [current |-> m1,
             total |-> IF m2 = None THEN DefaultStagesTotal ELSE m2[1]]

\* parseStageProgress(yaml) for an optional text: found = FALSE stands for null
parseStageProgress(yaml) ==
    IF ~yaml.found THEN [current |-> None, total |-> DefaultStagesTotal]
    ELSE ParseStageProgress(yaml.text)

\* ------------------------------------------------------------------------
\* Text encodings: UTF-8, base64 and JSON
\* ------------------------------------------------------------------------

\* the characters with the codes 32 to 95, in order
AsciiLow == " !\"#$%&'()*+,-./0123456789:;<=>?@ABCDEFGHIJKLMNOPQRSTUVWXYZ[\\]^_"

\* the characters with the codes 97 to 126, in order
AsciiHigh == "abcdefghijklmnopqrstuvwxyz{|}~"

\* The one character beyond ASCII the texts use is e with an acute accent
\* (code 233, two bytes in UTF-8).  TLC keeps only ASCII in a state: the
\* model's texts write it as a circumflex, which no text uses otherwise.
EAcute == "^"

\* the position of the character c in s
IndexIn(c, s) == CHOOSE i \in 1..Len(s) : At(s, i) = c

\* the characters the model can hold, each with its code point
CodeTable ==
    [c \in {EAcute} |-> 233]
    @@ [c \in CharsOf(AsciiLow) |-> 31 + IndexIn(c, AsciiLow)]
    @@ [c \in CharsOf(AsciiHigh) |-> 96 + IndexIn(c, AsciiHigh)]
    @@ [c \in {"\t"} |-> 9] @@ [c \in {"\n"} |-> 10] @@ [c \in {"\r"} |-> 13]

\* the code point of c; a character outside the table has no value
CharCode(c) == CodeTable[c]

\* the character with the code point n; a code outside the table has no value
CharOfCode(n) == CHOOSE c \in DOMAIN CodeTable : CodeTable[c] = n

\* a construct the model does not evaluate: evaluating it is an error
Unsupported == CHOOSE x \in {} : TRUE

\* The operators below work on a text by halves, which keeps the depth of
\* their evaluation logarithmic in its length.

\* unescape(encodeURIComponent(str)): the UTF-8 bytes of str
RECURSIVE Utf8Bytes(_)
Utf8Bytes(str) ==
    IF str = "" THEN <<>>
    ELSE IF Len(str) = 1
    THEN LET n == CharCode(str)
         IN IF n < 128 THEN <<n>>
            ELSE IF n < 2048 THEN <<192 + (n \div 64), 128 + (n % 64)>>
            ELSE Unsupported
    ELSE Utf8Bytes(SubSeq(str, 1, Len(str) \div 2))
         \o Utf8Bytes(SubSeq(str, Len(str) \div 2 + 1, Len(str)))

\* a byte that continues a character in UTF-8
IsContinuation(b) == b >= 128 /\ b < 192

\* decodeURIComponent(escape(str)): the text whose UTF-8 bytes are str, or
\* the URIError it throws (ok = FALSE)
RECURSIVE Utf8Text(_)
Utf8Text(bytes) ==
    IF bytes = <<>> THEN [ok |-> TRUE, text |-> ""]
    ELSE LET b == bytes[1]
         IN IF IsContinuation(b) \/ b \in {192, 193} \/ b > 244
            THEN [ok |-> FALSE, text |-> ""]
            ELSE IF b >= 224 THEN Unsupported
            ELSE LET n == IF b < 128 THEN 1 ELSE 2
                 IN IF Len(bytes) < n THEN [ok |-> FALSE, text |-> ""]
                    ELSE IF Len(bytes) = n
                    THEN IF n = 1 THEN [ok |-> TRUE, text |-> CharOfCode(b)]
                         ELSE IF IsContinuation(bytes[2])
                         THEN [ok |-> TRUE,
                               text |-> CharOfCode((b - 192) * 64 + (bytes[2] - 128))]
                         ELSE [ok |-> FALSE, text |-> ""]
                    ELSE LET m == IF Len(bytes) \div 2 > n THEN Len(bytes) \div 2 ELSE n
                             ends == {c \in m..(Len(bytes) - 1) :
                                         ~IsContinuation(bytes[c + 1])}
                             cut == IF ends = {} THEN n ELSE SetMin(ends)
                             left == Utf8Text(SubSeq(bytes, 1, cut))
                             right == Utf8Text(SubSeq(bytes, cut + 1, Len(bytes)))
                         IN [ok |-> left.ok /\ right.ok,
                             text |-> IF left.ok /\ right.ok
                                      THEN left.text \o right.text ELSE ""]

Base64Chars == "ABCDEFGHIJKLMNOPQRSTUVWXYZabcdefghijklmnopqrstuvwxyz0123456789+/"

Base64Char(n) == At(Base64Chars, n + 1)

Base64Table == [c \in CharsOf(Base64Chars) |-> IndexIn(c, Base64Chars) - 1]

\* btoa(str) on the bytes of a binary string
RECURSIVE btoa(_)
btoa(bytes) ==
    IF bytes = <<>> THEN ""
    ELSE IF Len(bytes) = 1
    THEN Base64Char(bytes[1] \div 4) \o Base64Char((bytes[1] % 4) * 16) \o "=="
    ELSE IF Len(bytes) = 2
    THEN Base64Char(bytes[1] \div 4)
         \o Base64Char((bytes[1] % 4) * 16 + (bytes[2] \div 16))
         \o Base64Char((bytes[2] % 16) * 4) \o "="
    ELSE IF Len(bytes) = 3
    THEN Base64Char(bytes[1] \div 4)
         \o Base64Char((bytes[1] % 4) * 16 + (bytes[2] \div 16))
         \o Base64Char((bytes[2] % 16) * 4 + (bytes[3] \div 64))
         \o Base64Char(bytes[3] % 64)
    ELSE LET cut == 3 * (((Len(bytes) + 2) \div 3) \div 2)
         IN btoa(SubSeq(bytes, 1, cut)) \o btoa(SubSeq(bytes, cut + 1, Len(bytes)))

\* the bytes of the base64 digits s, left-over bits dropped
RECURSIVE Base64Bytes(_)
Base64Bytes(s) ==
    IF Len(s) < 2 THEN <<>>
    ELSE IF Len(s) > 4
    THEN LET cut == 4 * (((Len(s) + 3) \div 4) \div 2)
         IN Base64Bytes(SubSeq(s, 1, cut)) \o Base64Bytes(SubSeq(s, cut + 1, Len(s)))
    ELSE LET v1 == Base64Table[At(s, 1)]
             v2 == Base64Table[At(s, 2)]
         IN IF Len(s) = 2 THEN <<v1 * 4 + (v2 \div 16)>>
            ELSE LET v3 == Base64Table[At(s, 3)]
                 IN IF Len(s) = 3
                    THEN <<v1 * 4 + (v2 \div 16), (v2 % 16) * 16 + (v3 \div 4)>>
                    ELSE <<v1 * 4 + (v2 \div 16), (v2 % 16) * 16 + (v3 \div 4),
                           (v3 % 4) * 64 + Base64Table[At(s, 4)]>>

\* atob(data), the forgiving base64 decoding, for data without white space:
\* the bytes, or the InvalidCharacterError it throws (ok = FALSE)
atob(data) ==
    LET n == Len(data)
        cut == IF n % 4 = 0 /\ n >= 2 /\ SubSeq(data, n - 1, n) = "==" THEN n - 2
               ELSE IF n % 4 = 0 /\ n >= 1 /\ At(data, n) = "=" THEN n - 1
               ELSE n
        digits == SubSeq(data, 1, cut)
    IN IF cut % 4 = 1 \/ \E i \in 1..cut : At(digits, i) \notin DOMAIN Base64Table
       THEN [ok |-> FALSE, bytes |-> <<>>]
       ELSE [ok |-> TRUE, bytes |-> Base64Bytes(digits)]

\* str.replace(/c/g, d) for single characters c and d
RECURSIVE ReplaceChar(_, _, _)
ReplaceChar(str, c, d) ==
    IF Len(str) <= 1 THEN (IF str = c THEN d ELSE str)
    ELSE ReplaceChar(SubSeq(str, 1, Len(str) \div 2), c, d)
         \o ReplaceChar(SubSeq(str, Len(str) \div 2 + 1, Len(str)), c, d)

\* str.replace(/=+$/g, "")
RECURSIVE StripPadding(_)
StripPadding(str) ==
    IF str # "" /\ At(str, Len(str)) = "="
    THEN StripPadding(SubSeq(str, 1, Len(str) - 1))
    ELSE str

\* "=".repeat(n)
RECURSIVE Padding(_)
Padding(n) == IF n = 0 THEN "" ELSE "=" \o Padding(n - 1)

\* toBase64Url(str)
toBase64Url(str) ==
    StripPadding(ReplaceChar(ReplaceChar(btoa(Utf8Bytes(str)), "+", "-"), "/", "_"))

\* fromBase64Url(b64url): found = FALSE stands for null
fromBase64Url(b64url) ==
    LET b64 == ReplaceChar(ReplaceChar(b64url, "-", "+"), "_", "/")
        pad == Len(b64) % 4
        str == atob(IF pad # 0 THEN b64 \o Padding(4 - pad) ELSE b64)
    IN IF ~str.ok THEN [found |-> FALSE, text |-> ""]
       ELSE LET decoded == Utf8Text(str.bytes)
            IN [found |-> decoded.ok, text |-> decoded.text]

\* the text of a JSON string with the content str, without the quotes
RECURSIVE JsonEscape(_)
JsonEscape(str) ==
    IF str = "" THEN ""
    ELSE IF Len(str) = 1
    THEN (IF str = "\"" THEN "\\\""
          ELSE IF str = "\\" THEN "\\\\"
          ELSE IF str = "\n" THEN "\\n"
          ELSE IF str = "\t" THEN "\\t"
          ELSE IF str = "\r" THEN "\\r"
          ELSE str)
    ELSE JsonEscape(SubSeq(str, 1, Len(str) \div 2))
         \o JsonEscape(SubSeq(str, Len(str) \div 2 + 1, Len(str)))

\* JSON.stringify(str)
JsonQuote(str) == "\"" \o JsonEscape(str) \o "\""

\* JSON.parse: a value is [type, ...] with type one of "string" (text),
\* "number" (text), "true", "false", "null", "object" (members, a sequence of
\* [key, val]) and "array" (elements); ok = FALSE stands for the SyntaxError.
\* next is the position after the value.
JsonFail == [ok |-> FALSE, val |-> [type |-> "null"], next |-> 0]

JsonOk(val, next) == [ok |-> TRUE, val |-> val, next |-> next]

\* the rest of a JSON string from position i on, acc being its content so far
RECURSIVE JsonStringFrom(_, _, _)
JsonStringFrom(s, i, acc) ==
    IF i > Len(s) THEN JsonFail
    ELSE LET c == At(s, i)
         IN IF c = "\"" THEN JsonOk([type |-> "string", text |-> acc], i + 1)
            ELSE IF c \in {"\n", "\t", "\r"} THEN JsonFail
            ELSE IF c # "\\" THEN JsonStringFrom(s, i + 1, acc \o c)
            ELSE IF i + 1 > Len(s) THEN JsonFail
            ELSE LET e == At(s, i + 1)
                 IN IF e \in {"\"", "\\", "/"} THEN JsonStringFrom(s, i + 2, acc \o e)
                    ELSE IF e = "n" THEN JsonStringFrom(s, i + 2, acc \o "\n")
                    ELSE IF e = "t" THEN JsonStringFrom(s, i + 2, acc \o "\t")
                    ELSE IF e = "r" THEN JsonStringFrom(s, i + 2, acc \o "\r")
                    ELSE IF e \in {"b", "f", "u"} THEN Unsupported
                    ELSE JsonFail

\* a JSON number at position i: -? (0 | [1-9][0-9]*) (. [0-9]+)?
JsonNumberAt(s, i) ==
    LET a == IF i <= Len(s) /\ At(s, i) = "-" THEN i + 1 ELSE i
        b == SkipDigits(s, a)
        c == IF b + 1 <= Len(s) /\ At(s, b) = "." /\ IsDigit(At(s, b + 1))
             THEN SkipDigits(s, b + 1) ELSE b
    IN IF b = a \/ (b > a + 1 /\ At(s, a) = "0") THEN JsonFail
       ELSE IF c <= Len(s) /\ At(s, c) \in {"e", "E"} THEN Unsupported
       ELSE JsonOk([type |-> "number", text |-> SubSeq(s, i, c - 1)], c)

RECURSIVE JsonValueAt(_, _)
RECURSIVE JsonMembersFrom(_, _, _)
RECURSIVE JsonElementsFrom(_, _, _)

\* the value that starts at the first position >= i holding no white space
JsonValueAt(s, i) ==
    LET j == SkipWs(s, i)
    IN IF j > Len(s) THEN JsonFail
       ELSE IF At(s, j) = "\"" THEN JsonStringFrom(s, j + 1, "")
       ELSE IF At(s, j) = "{"
       THEN LET k == SkipWs(s, j + 1)
            IN IF k <= Len(s) /\ At(s, k) = "}"
               THEN JsonOk([type |-> "object", members |-> <<>>], k + 1)
               ELSE JsonMembersFrom(s, k, <<>>)
       ELSE IF At(s, j) = "["
       THEN LET k == SkipWs(s, j + 1)
            IN IF k <= Len(s) /\ At(s, k) = "]"
               THEN JsonOk([type |-> "array", elements |-> <<>>], k + 1)
               ELSE JsonElementsFrom(s, k, <<>>)
       ELSE IF StartsAt(s, j, "true") THEN JsonOk([type |-> "true"], j + 4)
       ELSE IF StartsAt(s, j, "false") THEN JsonOk([type |-> "false"], j + 5)
       ELSE IF StartsAt(s, j, "null") THEN JsonOk([type |-> "null"], j + 4)
       ELSE JsonNumberAt(s, j)

\* the members of an object from position i (no white space there) on
JsonMembersFrom(s, i, acc) ==
    IF i > Len(s) \/ At(s, i) # "\"" THEN JsonFail
    ELSE LET key == JsonStringFrom(s, i + 1, "")
         IN IF ~key.ok THEN JsonFail
            ELSE LET c == SkipWs(s, key.next)
                 IN IF c > Len(s) \/ At(s, c) # ":" THEN JsonFail
                    ELSE LET v == JsonValueAt(s, c + 1)
                         IN IF ~v.ok THEN JsonFail
                            ELSE LET e == SkipWs(s, v.next)
                                     all == Append(acc, [key |-> key.val.text,
                                                         val |-> v.val])
                                 IN IF e > Len(s) THEN JsonFail
                                    ELSE IF At(s, e) = "}"
                                    THEN JsonOk([type |-> "object", members |-> all],
                                                e + 1)
                                    ELSE IF At(s, e) = ","
                                    THEN JsonMembersFrom(s, SkipWs(s, e + 1), all)
                                    ELSE JsonFail

\* the elements of an array from position i on
JsonElementsFrom(s, i, acc) ==
    LET v == JsonValueAt(s, i)
    IN IF ~v.ok THEN JsonFail
       ELSE LET e == SkipWs(s, v.next)
                all == Append(acc, v.val)
            IN IF e > Len(s) THEN JsonFail
               ELSE IF At(s, e) = "]"
               THEN JsonOk([type |-> "array", elements |-> all], e + 1)
               ELSE IF At(s, e) = "," THEN JsonElementsFrom(s, e + 1, all)
               ELSE JsonFail

\* JSON.parse(text)
JsonParse(text) ==
    LET v == JsonValueAt(text, 1)
    IN IF v.ok /\ SkipWs(text, v.next) > Len(text) THEN v ELSE JsonFail

\* obj[key] of a parsed object: the value of the last member named key,
\* [type |-> "undefined"] if there is none or obj is no object
JsonGet(obj, key) ==
    IF obj.type # "object" THEN [type |-> "undefined"]
    ELSE LET hits == {m \in 1..Len(obj.members) : obj.members[m].key = key}
         IN IF hits = {} THEN [type |-> "undefined"]
            ELSE obj.members[SetMax(hits)].val

\* ------------------------------------------------------------------------
\* The link codec and the requests
\* ------------------------------------------------------------------------

\* a || b for texts
Or(a, b) == IF a = "" THEN b ELSE a

\* JSON.stringify({ baseUrl, model, apiKey })
JsonStringifyConfig(cfg) ==
    "{\"baseUrl\":" \o JsonQuote(cfg.baseUrl) \o ",\"model\":" \o JsonQuote(cfg.model)
    \o ",\"apiKey\":" \o JsonQuote(cfg.apiKey) \o "}"

\* JSON.stringify(cfg, null, 2), the text of the exported file
ConfigFileText(cfg) ==
    "{\n  \"baseUrl\": " \o JsonQuote(cfg.baseUrl) \o ",\n  \"model\": "
    \o JsonQuote(cfg.model) \o ",\n  \"apiKey\": " \o JsonQuote(cfg.apiKey) \o "\n}"

\* window.location.origin + window.location.pathname
PageUrl == "https://usalocklento.github.io/ack-precalc/"

\* variant of the link that carries plain base64
buildMagicLinkBase64(cfg) ==
    PageUrl \o "#cfg=" \o btoa(Utf8Bytes(JsonStringifyConfig(cfg)))

\* buildMagicLink(cfg)
buildMagicLink(cfg) == PageUrl \o "#cfg=" \o toBase64Url(JsonStringifyConfig(cfg))

\* the fragment of url: from its first # on, "" if it has none
HashOf(url) ==
    LET at == {i \in 1..Len(url) : At(url, i) = "#"}
    IN IF at = {} THEN "" ELSE SubSeq(url, SetMin(at), Len(url))

\* variant that takes every field from the link, absent ones as ""
sanitizeConfigAsIs(obj, current) ==
    IF obj.type \notin {"object", "array"} THEN None
    ELSE LET Text(v) == IF v.type = "string" THEN v.text ELSE ""
         IN [baseUrl |-> Text(JsonGet(obj, "baseUrl")),
             model |-> Text(JsonGet(obj, "model")),
             apiKey |-> Text(JsonGet(obj, "apiKey"))]

\* sanitizeConfig(obj) for the parsed value obj; current holds baseUrl, model
\* and apiKey as the closure sees them.  None stands for null.
sanitizeConfig(obj, current) ==
    IF obj.type \notin {"object", "array"} THEN None
    ELSE LET b == JsonGet(obj, "baseUrl")
             m == JsonGet(obj, "model")
             k == JsonGet(obj, "apiKey")
         IN [baseUrl |-> IF b.type = "string" /\ Trim(b.text) # ""
                         THEN Trim(b.text) ELSE current.baseUrl,
             model |-> IF m.type = "string" /\ Trim(m.text) # ""
                       THEN Trim(m.text) ELSE current.model,
             apiKey |-> IF k.type = "string" THEN k.text ELSE current.apiKey]

\* [A-Za-z0-9_\-]
TokenChars == LetterChars \cup DigitChars \cup {"_", "-"}

\* the first position >= i of h that holds no token character
SkipToken(h, i) ==
    SetMin({j \in i..(Len(h) + 1) : j > Len(h) \/ At(h, j) \notin TokenChars})

\* the capture group of h.match(/[#&]cfg=([A-Za-z0-9_\-]+)/), "" if no match
CfgToken(h) ==
    LET at == {i \in 1..Len(h) : /\ At(h, i) \in {"#", "&"}
                                 /\ StartsAt(h, i + 1, "cfg=")
                                 /\ i + 5 <= Len(h)
                                 /\ At(h, i + 5) \in TokenChars}
    IN IF at = {} THEN ""
       ELSE SubSeq(h, SetMin(at) + 5, SkipToken(h, SetMin(at) + 5) - 1)

\* parseMagicLinkFromHash() with window.location.hash = h
parseMagicLinkFromHash(h, current) ==
    LET token == CfgToken(h)
        json == fromBase64Url(token)
    IN IF token = "" \/ ~json.found \/ json.text = "" THEN None
       ELSE LET obj == JsonParse(json.text)
            IN IF ~obj.ok THEN None ELSE sanitizeConfig(obj.val, current)

\* baseUrl.replace(/\/$/, "")
StripSlash(url) ==
    IF url # "" /\ At(url, Len(url)) = "/" THEN SubSeq(url, 1, Len(url) - 1) ELSE url

\* variant that also passes the key as a query parameter
RequestWithKeyInUrl(call) ==
    [url |-> StripSlash(call.baseUrl) \o "/chat/completions?key=" \o call.apiKey,
     authorization |-> IF call.apiKey # "" THEN "Bearer " \o call.apiKey ELSE "",
     body |-> [model |-> call.model, messages |-> call.messages]]

\* what callChatCompletions hands to fetch: the address, the Authorization
\* header ("" when it is not set) and the fields of the body that vary
Request(call) ==
    [url |-> StripSlash(call.baseUrl) \o "/chat/completions",
     authorization |-> IF call.apiKey # "" THEN "Bearer " \o call.apiKey ELSE "",
     body |-> [model |-> call.model, messages |-> call.messages]]

\* ------------------------------------------------------------------------
\* Inputs and bounds
\* ------------------------------------------------------------------------

\* Date.now() when the page loads (ms); lastActionRef starts at 0
StartTime == 1000

\* the clock stops advancing after this many ms
MaxElapsed == 300

DebounceMs == 300

\* CONTROLLER_PROMPT, abbreviated to its first line
CONTROLLER_PROMPT == "SYSTEM / CONTROLLER INSTRUCTIONS"

StartRequest == "Start. Please begin at Stage 0."

DefaultBaseUrl == "https://api.openai.com/v1"

DefaultModel == "gpt-4o-mini"

\* what the user types or the NEXT / STATE buttons send
UserTexts == {"NEXT", " State ", "my state?", " \n"}

ReplyPlain == "Stage 0. Type NEXT to continue."

\* a reply with two qualifying blocks, an unqualified block between them and
\* an unterminated fence at the end
ReplyWithState ==
    "~~~\nSTATE:\n progress: {current_stage: 7}\n~~~\n~~~js\nx\n~~~\n~~~yaml\nSTATE:\n  progress: {current_stage:0, stages_total:8}\n~~~\nType NEXT ~~~\nSTATE: z"

\* what the endpoint may answer
AssistantReplies == {ReplyPlain, ReplyWithState}

\* a later reply with one block, the state of the next stage
ReplyWithNewState ==
    "Stage 1.\n~~~yaml\nSTATE:\n  progress: {current_stage:1, stages_total:8}\n~~~\nType NEXT to continue."

\* what the endpoint may answer in the course of a session
SessionReplies == AssistantReplies \cup {ReplyWithNewState}

\* the message of the Error callChatCompletions throws
CallErrors == {"LLM error 500: upstream failure"}

\* what the settings form may hold
BaseUrls == {"", DefaultBaseUrl, "http://localhost:11434/v1"}

ApiKeys == {"", "sk-1"}

\* how far the clock moves between two events
ClockSteps == {DebounceMs - 1, DebounceMs}

\* what the settings form may hold when a link is made
CfgBaseUrls == {"", " http://h/v1\n", DefaultBaseUrl}

CfgModels == {"", "^+/=?>?", DefaultModel}

CfgApiKeys == {"", "sk-1", " k+/=\"\\>?>? "}

LinkConfigs == [baseUrl : CfgBaseUrls, model : CfgModels, apiKey : CfgApiKeys]

\* the links of these configurations, evaluated once (@@ makes the table of a
\* function explicit, here and below)
LinkOfConfig == [cfg \in LinkConfigs |-> buildMagicLink(cfg)] @@ <<>>

MagicLink(cfg) == IF cfg \in LinkConfigs THEN LinkOfConfig[cfg] ELSE buildMagicLink(cfg)

\* fragments written by hand: none, one without a token, and tokens for
\*   {"baseUrl":"http://h/v1","model":"^+/=?>?","apiKey":"sk-1"}  (also after &,
\*       and followed by characters outside the token alphabet)
\*   {"model":"^+/=?>?"}
\*   {"baseUrl":" ","model":"^+/=?>?","apiKey":""}
\*   {}    5    null    notjson
\* then a token of five digits, one for the single byte 128, one cut short
\* by a character outside the alphabet, and one with no digit at all
FullToken == "eyJiYXNlVXJsIjoiaHR0cDovL2gvdjEiLCJtb2RlbCI6IsOpKy89Pz4_IiwiYXBpS2V5Ijoic2stMSJ9"

OtherFragments ==
    {"", "#top",
     "#cfg=" \o FullToken,
     "#a=1&cfg=" \o FullToken,
     "#cfg=" \o FullToken \o "*x",
     "#cfg=eyJtb2RlbCI6IsOpKy89Pz4_In0",
     "#cfg=eyJiYXNlVXJsIjoiICIsIm1vZGVsIjoiw6krLz0_Pj8iLCJhcGlLZXkiOiIifQ",
     "#cfg=e30", "#cfg=NQ", "#cfg=bnVsbA", "#cfg=bm90anNvbg",
     "#cfg=abcde", "#cfg=gA", "#cfg=e3*0", "#cfg=!!!"}

\* window.location.hash of a page opened with these links, evaluated once
FragmentOfConfig == [cfg \in LinkConfigs |-> HashOf(LinkOfConfig[cfg])] @@ <<>>

\* the fragment a page may be opened with
Fragments == {FragmentOfConfig[cfg] : cfg \in LinkConfigs} \cup OtherFragments

\* useState("") / useState("https://api.openai.com/v1") / useState("gpt-4o-mini"):
\* the settings as the closures of the first render see them
FirstRender == [baseUrl |-> DefaultBaseUrl, model |-> DefaultModel, apiKey |-> ""]

\* parseMagicLinkFromHash in the load effect, evaluated once per fragment
ParsedFragment == [h \in Fragments |-> parseMagicLinkFromHash(h, FirstRender)] @@ <<>>

ParsedLink(h) ==
    IF h \in Fragments THEN ParsedFragment[h] ELSE parseMagicLinkFromHash(h, FirstRender)

\* a localStorage slot that holds nothing
NoItem == <<>>

\* a slot whose text JSON.parse rejects
Unparseable == [text |-> "{oops"]

\* a transcript slot whose text is JSON but no array
NotAList == [text |-> "{}"]

\* what an earlier visit may have left in the slots
StoredSettings ==
    {NoItem, Unparseable,
     [apiKey |-> "sk-1", baseUrl |-> "http://localhost:11434/v1", model |-> ""]}

StoredTranscripts ==
    {<<>>, Unparseable, NotAList,
     <<[role |-> "system", content |-> CONTROLLER_PROMPT],
       [role |-> "user", content |-> StartRequest],
       [role |-> "assistant", content |-> ReplyPlain]>>}

StoredYamls == {"", "STATE:\n  progress: {current_stage:2}"}

\* The text functions on the inputs above, evaluated once
ExtractedOfReply == [r \in SessionReplies |-> ExtractStateYaml(r)] @@ <<>>

Extracted(text) ==
    IF text \in SessionReplies THEN ExtractedOfReply[text] ELSE ExtractStateYaml(text)

ProgressOfReply ==
    [r \in AssistantReplies |-> ParseStageProgress(ExtractedOfReply[r].text)] @@ <<>>

Progress(yamlText) ==
    IF \E r \in AssistantReplies : ExtractedOfReply[r].text = yamlText
    THEN ProgressOfReply[CHOOSE r \in AssistantReplies : ExtractedOfReply[r].text = yamlText]
    ELSE ParseStageProgress(yamlText)

\* ------------------------------------------------------------------------
\* State
\* ------------------------------------------------------------------------

\* The widget state of the page (the composer's input text, settingsOpen,
\* magicCopied) is not kept: a submitted text is an input of sendUser, and
\* the settings fields are edited by setBaseUrl and setApiKey.  The model
\* name is read only as an argument of the call and stays at its default.

VARIABLES
    apiKey, baseUrl, model,   \* Settings (useState)
    messages,                 \* the conversation, a sequence of [role, content]
    busy,                     \* a call is awaited
    error,                    \* the message shown to the user, "" if none
    lastActionRef,            \* Date.now() of the last accepted action
    drawerOpen,               \* Visibility
    lastYaml,                 \* ExtractedState, "" if absent
    lsSettings,               \* localStorage slot pcpc_settings_v1
    lsTranscript,             \* localStorage slot pcpc_transcript_v1
    lsLastYaml,               \* localStorage slot pcpc_state_yaml_v1
    now,                      \* Date.now()
    inflight,                 \* the callChatCompletions promises not yet settled
    everYaml,                 \* history: lastYaml was non-empty since the session began
    history,                  \* the fragments of the tab's history entries, the
                              \* last one being window.location.hash
    phase,                    \* "loading" before App is mounted, then "mounted",
                              \* or "crashed" when the first render threw
    storageRaises,            \* localStorage.getItem throws (storage disabled)
    exported,                 \* what the handler that just ran handed to the
                              \* clipboard or to a download, NoItem if nothing
    parts,                    \* the pieces of the text handed to a text function
    returned                  \* what the text function returned for it

vars == <<apiKey, baseUrl, model, messages, busy, error, lastActionRef, drawerOpen,
          lastYaml, lsSettings, lsTranscript, lsLastYaml, now, inflight, everYaml,
          history, phase, storageRaises, exported, parts, returned>>

sessionVars == <<messages, busy, error, lastActionRef, drawerOpen, lastYaml,
                 lsTranscript, lsLastYaml, inflight, everYaml>>

textVars == <<parts, returned>>

settingsVars == <<apiKey, baseUrl, model, lsSettings>>

Message(role, content) == [role |-> role, content |-> content]

\* variant that stores the trimmed text
UserMessageTrimmed(text) == Message("user", Trim(text))

\* { role: "user", content: text }
UserMessage(text) == Message("user", text)

AssistantMessage(text) == Message("assistant", text)

\* variant of the seed with the initial request first
SeedRequestFirst == <<UserMessage(StartRequest), Message("system", CONTROLLER_PROMPT)>>

\* the seed of startSession
Seed == <<Message("system", CONTROLLER_PROMPT), UserMessage(StartRequest)>>

hasSession == Len(messages) > 0

\* the derived progress (useMemo over lastYaml)
stageInfo == Progress(lastYaml)

\* ------------------------------------------------------------------------
\* Guards of the handlers
\* ------------------------------------------------------------------------

\* variant of the debounce test that still refuses at exactly the window
canActStrict == ~(now - lastActionRef <= DebounceMs)

\* canAct(): the debounce test; the caller stores now when it passes
canAct == ~(now - lastActionRef < DebounceMs)

\* variant without the i flag
IsToggleCommandExact(text) == Trim(text) = "STATE"

\* /^STATE$/i.test(text.trim())
IsToggleCommand(text) == ToUpper(Trim(text)) = "STATE"

\* variant without the i flag
MentionsStateExact(text) ==
    \E i \in 1..Len(text) :
        /\ StartsAt(text, i, "STATE")
        /\ i = 1 \/ ~IsWordChar(At(text, i - 1))
        /\ i + 5 > Len(text) \/ ~IsWordChar(At(text, i + 5))

\* /\bSTATE\b/i.test(text)
MentionsState(text) ==
    \E i \in 1..Len(text) :
        /\ StartsAt(ToUpper(text), i, "STATE")
        /\ i = 1 \/ ~IsWordChar(At(text, i - 1))
        /\ i + 5 > Len(text) \/ ~IsWordChar(At(text, i + 5))

\* variant of the local toggle that does not look at lastYaml
HasLocalYamlUnchecked == TRUE

\* lastYaml && lastYaml.trim()
HasLocalYaml == lastYaml # "" /\ Trim(lastYaml) # ""

\* /openai\.com/.test(baseUrl)
IsOpenAiUrl(url) == \E i \in 1..Len(url) : StartsAt(url, i, "openai.com")

\* variant that asks for the endpoint only
ensureSettingsUrlOnly == IF baseUrl = "" THEN "Base URL is required" ELSE ""

\* ensureSettings(): the message of the Error it throws, "" when it returns
ensureSettings ==
    IF baseUrl = "" THEN "Base URL is required"
    ELSE IF IsOpenAiUrl(baseUrl) /\ apiKey = "" THEN "API key required for OpenAI base URL"
    ELSE ""

\* The guards on the user's texts, evaluated once
GuardsOfText ==
    [t \in UserTexts |-> [blank |-> Trim(t) = "",
                          toggle |-> IsToggleCommand(t),
                          mentions |-> MentionsState(t)]] @@ <<>>

IsBlank(text) == IF text \in UserTexts THEN GuardsOfText[text].blank ELSE Trim(text) = ""

IsToggle(text) ==
    IF text \in UserTexts THEN GuardsOfText[text].toggle ELSE IsToggleCommand(text)

Mentions(text) ==
    IF text \in UserTexts THEN GuardsOfText[text].mentions ELSE MentionsState(text)

\* the early returns of startSession
StartRejected == busy \/ ~canAct

\* variant of sendUser's early returns without the busy test
SendRejectedIgnoringBusy(text) == IsBlank(text) \/ ~canAct

\* the early returns of sendUser
SendRejected(text) == IsBlank(text) \/ busy \/ ~canAct

\* ------------------------------------------------------------------------
\* Initial state: first load, empty localStorage, no link in the address
\* ------------------------------------------------------------------------

Init ==
    /\ apiKey = ""
    /\ baseUrl = DefaultBaseUrl
    /\ model = DefaultModel
    /\ messages = <<>>
    /\ busy = FALSE
    /\ error = ""
    /\ lastActionRef = 0
    /\ drawerOpen = FALSE
    /\ lastYaml = ""
    /\ lsSettings = NoItem
    /\ lsTranscript = <<>>
    /\ lsLastYaml = ""
    /\ now = StartTime
    /\ inflight = <<>>
    /\ everYaml = FALSE
    /\ history = <<"">>
    /\ phase = "mounted"
    /\ storageRaises = FALSE
    /\ exported = NoItem
    /\ parts = <<>>
    /\ returned = NoItem

\* ------------------------------------------------------------------------
\* Steps shared by the handlers
\* ------------------------------------------------------------------------

\* variant that writes the slots before the state is changed
PersistBefore ==
    /\ lsTranscript' = messages
    /\ lsLastYaml' = lastYaml

\* the two persistence effects that run after each render: the transcript
\* slot holds the serialised messages (kept here as the sequence it parses
\* back to), the state slot holds lastYaml || ""
Persist ==
    /\ lsTranscript' = messages'
    /\ lsLastYaml' = lastYaml'

History == everYaml' = (everYaml \/ lastYaml' # "")

\* a handler that touches neither the address nor the clipboard nor a download
PageUntouched ==
    /\ exported' = NoItem
    /\ UNCHANGED <<history, phase, storageRaises, parts, returned>>

\* callChatCompletions({baseUrl, apiKey, model, messages}) is invoked: the
\* promise joins the calls in flight.  before, stale and touched are history
\* fields: the session when the handler ran, whether it was reset since, and
\* whether reset or the drawer control acted since.
NewCall(kind, text, msgs) ==
    [kind |-> kind, text |-> text, messages |-> msgs,
     baseUrl |-> baseUrl, apiKey |-> apiKey, model |-> model,
     before |-> [messages |-> messages, lastYaml |-> lastYaml, drawerOpen |-> drawerOpen],
     stale |-> FALSE, touched |-> FALSE]

Without(seq, i) == SubSeq(seq, 1, i - 1) \o SubSeq(seq, i + 1, Len(seq))

\* variant that keeps the state it has when a reply brings another one
ReplyEffectKeepsFirst(c, assistantText) ==
    LET yaml == Extracted(assistantText)
    IN IF Truthy(yaml)
       THEN [lastYaml |-> IF lastYaml = "" THEN yaml.text ELSE lastYaml, drawerOpen |-> TRUE]
       ELSE IF c.kind = "send" /\ Mentions(c.text)
       THEN [lastYaml |-> "", drawerOpen |-> FALSE]
       ELSE [lastYaml |-> lastYaml, drawerOpen |-> drawerOpen]

\* what the code after the await does to lastYaml and drawerOpen for the
\* call c answered with assistantText
ReplyEffect(c, assistantText) ==
    LET yaml == Extracted(assistantText)
    IN IF Truthy(yaml)
       THEN [lastYaml |-> yaml.text, drawerOpen |-> TRUE]
       ELSE IF c.kind = "send" /\ Mentions(c.text)
       THEN [lastYaml |-> "", drawerOpen |-> FALSE]
       ELSE [lastYaml |-> lastYaml, drawerOpen |-> drawerOpen]

\* ------------------------------------------------------------------------
\* Actions
\* ------------------------------------------------------------------------

\* time passes
ClockAdvance(d) ==
    /\ now + d <= StartTime + MaxElapsed
    /\ now' = now + d
    /\ UNCHANGED <<apiKey, baseUrl, model, messages, busy, error, lastActionRef,
                   drawerOpen, lastYaml, lsSettings, lsTranscript, lsLastYaml,
                   inflight, everYaml>>
    /\ PageUntouched

\* the Start Session button, rendered while there is no session
startSession ==
    /\ ~hasSession
    /\ IF StartRejected THEN UNCHANGED vars
       ELSE /\ lastActionRef' = now
            /\ IF ensureSettings # ""
               THEN /\ error' = ensureSettings
                    /\ busy' = FALSE
                    /\ UNCHANGED <<messages, inflight>>
               ELSE /\ error' = ""
                    /\ messages' = Seed
                    /\ busy' = TRUE
                    /\ inflight' = Append(inflight, NewCall("start", StartRequest, Seed))
            /\ UNCHANGED <<drawerOpen, lastYaml, now, settingsVars>>
            /\ Persist
            /\ History
            /\ PageUntouched

\* the NEXT and STATE buttons, the Send button and the Enter key
sendUser(text) ==
    IF SendRejected(text) THEN UNCHANGED vars
    ELSE /\ lastActionRef' = now
         /\ IF IsToggle(text) /\ HasLocalYaml
            THEN /\ drawerOpen' = ~drawerOpen
                 /\ UNCHANGED <<messages, busy, error, inflight>>
            ELSE /\ IF ensureSettings # ""
                    THEN /\ error' = ensureSettings
                         /\ busy' = FALSE
                         /\ UNCHANGED <<messages, inflight>>
                    ELSE /\ error' = ""
                         /\ messages' = Append(messages, UserMessage(text))
                         /\ busy' = TRUE
                         /\ inflight' =
                                Append(inflight,
                                       NewCall("send", text, Append(messages, UserMessage(text))))
                 /\ UNCHANGED drawerOpen
         /\ UNCHANGED <<lastYaml, now, settingsVars>>
         /\ Persist
         /\ History
         /\ PageUntouched

\* the awaited call i resolves with assistantText: the rest of the try block
\* and the finally block of startSession / sendUser
CallResolves(i, assistantText) ==
    /\ i \in 1..Len(inflight)
    /\ LET c == inflight[i]
           after == ReplyEffect(c, assistantText)
       IN /\ lastYaml' = after.lastYaml
          /\ drawerOpen' = after.drawerOpen
          /\ messages' = Append(messages, AssistantMessage(assistantText))
          /\ busy' = FALSE
          /\ inflight' = Without(inflight, i)
    /\ UNCHANGED <<error, lastActionRef, now, settingsVars>>
    /\ Persist
    /\ History
    /\ PageUntouched

\* variant of the rejection without the finally block
CallRejectsKeepsBusy(i, message) ==
    /\ i \in 1..Len(inflight)
    /\ error' = message
    /\ inflight' = Without(inflight, i)
    /\ UNCHANGED <<messages, busy, lastYaml, drawerOpen, lastActionRef, now, settingsVars>>
    /\ Persist
    /\ History
    /\ PageUntouched

\* the awaited call i rejects: the catch and finally blocks
CallRejects(i, message) ==
    /\ i \in 1..Len(inflight)
    /\ error' = message
    /\ busy' = FALSE
    /\ inflight' = Without(inflight, i)
    /\ UNCHANGED <<messages, lastYaml, drawerOpen, lastActionRef, now, settingsVars>>
    /\ Persist
    /\ History
    /\ PageUntouched

\* variant of the Reset button that is disabled while a call is awaited
resetSessionUnlessBusy ==
    /\ hasSession
    /\ ~busy
    /\ messages' = <<>>
    /\ lastYaml' = ""
    /\ drawerOpen' = FALSE
    /\ error' = ""
    /\ inflight' = inflight
    /\ everYaml' = FALSE
    /\ UNCHANGED <<busy, lastActionRef, now, settingsVars>>
    /\ Persist
    /\ PageUntouched

\* the Reset button, rendered while there is a session
resetSession ==
    /\ hasSession
    /\ messages' = <<>>
    /\ lastYaml' = ""
    /\ drawerOpen' = FALSE
    /\ error' = ""
    /\ inflight' = [i \in 1..Len(inflight) |->
                        [inflight[i] EXCEPT !.stale = TRUE, !.touched = TRUE]]
    /\ everYaml' = FALSE
    /\ UNCHANGED <<busy, lastActionRef, now, settingsVars>>
    /\ Persist
    /\ PageUntouched

\* the Show / Hide control of the state drawer
ToggleDrawer ==
    /\ drawerOpen' = ~drawerOpen
    /\ inflight' = [i \in 1..Len(inflight) |-> [inflight[i] EXCEPT !.touched = TRUE]]
    /\ UNCHANGED <<messages, busy, error, lastActionRef, lastYaml, now, settingsVars>>
    /\ Persist
    /\ History
    /\ PageUntouched

\* the Base URL field of the settings form
setBaseUrl(v) ==
    /\ baseUrl' = v
    /\ UNCHANGED <<apiKey, model, lsSettings, now, sessionVars>>
    /\ PageUntouched

\* the Model field of the settings form
setModel(v) ==
    /\ model' = v
    /\ UNCHANGED <<apiKey, baseUrl, lsSettings, now, sessionVars>>
    /\ PageUntouched

\* the API Key field of the settings form
setApiKey(v) ==
    /\ apiKey' = v
    /\ UNCHANGED <<baseUrl, model, lsSettings, now, sessionVars>>
    /\ PageUntouched

\* the Save button of the settings form
handleSaveSettings ==
    /\ lsSettings' = [apiKey |-> apiKey, baseUrl |-> baseUrl, model |-> model]
    /\ UNCHANGED <<apiKey, baseUrl, model, now, sessionVars>>
    /\ PageUntouched

\* ------------------------------------------------------------------------
\* The page: loading, links and exports
\* ------------------------------------------------------------------------

\* window.location.hash
locationHash == history[Len(history)]

\* loadSettings(): None stands for null
loadSettings ==
    IF storageRaises \/ lsSettings = NoItem \/ lsSettings = Unparseable THEN None
    ELSE lsSettings

\* loadTranscript(): None stands for null
loadTranscript ==
    IF storageRaises \/ lsTranscript = Unparseable THEN None ELSE lsTranscript

\* the first render throws: localStorage.getItem outside a try block in the
\* initialiser of lastYaml, or messages.map on a value that is no array
FirstRenderThrows == storageRaises \/ loadTranscript = NotAList

\* variant that adds a history entry
pushState(fragment) == Append(history, fragment)

\* history.replaceState(null, "", pathname + search): the current entry is
\* replaced by one with the given fragment
replaceState(fragment) == [history EXCEPT ![Len(history)] = fragment]

\* the in-memory state of a page that is not mounted yet
Unmounted ==
    /\ apiKey' = ""
    /\ baseUrl' = DefaultBaseUrl
    /\ model' = DefaultModel
    /\ messages' = <<>>
    /\ busy' = FALSE
    /\ error' = ""
    /\ lastActionRef' = 0
    /\ drawerOpen' = FALSE
    /\ lastYaml' = ""
    /\ inflight' = <<>>
    /\ everYaml' = FALSE

\* the address is opened in a new tab
OpenLink(fragment) ==
    /\ phase # "loading"
    /\ phase' = "loading"
    /\ history' = <<fragment>>
    /\ exported' = NoItem
    /\ Unmounted
    /\ UNCHANGED <<lsSettings, lsTranscript, lsLastYaml, now, storageRaises, textVars>>

\* App is mounted: the initialisers of useState, the first render, the load
\* effect and the two persistence effects
PageLoad ==
    /\ phase = "loading"
    /\ IF FirstRenderThrows
       THEN /\ phase' = "crashed"
            /\ UNCHANGED <<apiKey, baseUrl, model, lsSettings, now, sessionVars,
                           history, storageRaises, exported, textVars>>
       ELSE LET t == loadTranscript
                s == loadSettings
                cfg == ParsedLink(locationHash)
            IN /\ phase' = "mounted"
               /\ messages' = IF t = None THEN <<>> ELSE t
               /\ lastYaml' = lsLastYaml
               /\ IF cfg # None
                  THEN /\ baseUrl' = cfg.baseUrl
                       /\ model' = cfg.model
                       /\ apiKey' = cfg.apiKey
                       /\ lsSettings' = [apiKey |-> cfg.apiKey, baseUrl |-> cfg.baseUrl,
                                         model |-> cfg.model]
                       /\ history' = replaceState("")
                  ELSE /\ IF s # None
                          THEN /\ apiKey' = s.apiKey
                               /\ baseUrl' = Or(s.baseUrl, DefaultBaseUrl)
                               /\ model' = Or(s.model, DefaultModel)
                          ELSE UNCHANGED <<apiKey, baseUrl, model>>
                       /\ UNCHANGED <<lsSettings, history>>
               /\ Persist
               /\ everYaml' = (lastYaml' # "")
               /\ UNCHANGED <<busy, error, lastActionRef, drawerOpen, inflight, now,
                              storageRaises, exported, textVars>>

\* the Magic Link button: the link goes to the clipboard or, when that
\* fails, into a prompt
copyMagicLink(sink) ==
    /\ exported' = [sink |-> sink,
                    text |-> MagicLink([baseUrl |-> baseUrl, model |-> model,
                                        apiKey |-> apiKey])]
    /\ UNCHANGED <<apiKey, baseUrl, model, lsSettings, now, sessionVars, history, phase,
                   storageRaises, textVars>>

\* the Export button: the file precalc-config.json
downloadConfig ==
    /\ exported' = [sink |-> "download",
                    text |-> ConfigFileText([baseUrl |-> baseUrl, model |-> model,
                                             apiKey |-> apiKey])]
    /\ UNCHANGED <<apiKey, baseUrl, model, lsSettings, now, sessionVars, history, phase,
                   storageRaises, textVars>>

Next ==
    \/ \E d \in ClockSteps : ClockAdvance(d)
    \/ startSession
    \/ \E text \in UserTexts : sendUser(text)
    \/ \E i \in 1..Len(inflight), r \in AssistantReplies : CallResolves(i, r)
    \/ \E i \in 1..Len(inflight), m \in CallErrors : CallRejects(i, m)
    \/ resetSession
    \/ ToggleDrawer
    \/ \E v \in BaseUrls : setBaseUrl(v)
    \/ \E v \in ApiKeys : setApiKey(v)
    \/ handleSaveSettings

Spec == Init /\ [][Next]_vars

\* the promise of a call settles: fetch resolves or rejects
Settles ==
    \/ \E i \in 1..Len(inflight), r \in AssistantReplies : CallResolves(i, r)
    \/ \E i \in 1..Len(inflight), m \in CallErrors : CallRejects(i, m)

\* Spec where every call that was issued settles in the end
LiveSpec == Spec /\ WF_vars(Settles)

\* ------------------------------------------------------------------------
\* The page from its opening on: storage as an earlier visit left it, any
\* fragment in the address
\* ------------------------------------------------------------------------

LoadInit ==
    /\ apiKey = ""
    /\ baseUrl = DefaultBaseUrl
    /\ model = DefaultModel
    /\ messages = <<>>
    /\ busy = FALSE
    /\ error = ""
    /\ lastActionRef = 0
    /\ drawerOpen = FALSE
    /\ lastYaml = ""
    /\ lsSettings \in StoredSettings
    /\ lsTranscript \in StoredTranscripts
    /\ lsLastYaml \in StoredYamls
    /\ now = StartTime
    /\ inflight = <<>>
    /\ everYaml = FALSE
    /\ \E h \in Fragments : history = <<h>>
    /\ phase = "loading"
    /\ storageRaises \in BOOLEAN
    /\ exported = NoItem
    /\ parts = <<>>
    /\ returned = NoItem

PageNext ==
    \/ PageLoad
    \/ \E h \in Fragments : OpenLink(h)
    \/ phase = "mounted" /\ handleSaveSettings

PageSpec == LoadInit /\ [][PageNext]_vars

\* ------------------------------------------------------------------------
\* A session with settings that pass ensureSettings
\* ------------------------------------------------------------------------

SessionInit ==
    /\ apiKey = "sk-1" /\ baseUrl = DefaultBaseUrl /\ model = DefaultModel
    /\ messages = <<>> /\ busy = FALSE /\ error = "" /\ lastActionRef = 0
    /\ drawerOpen = FALSE /\ lastYaml = ""
    /\ lsSettings = [apiKey |-> "sk-1", baseUrl |-> DefaultBaseUrl, model |-> DefaultModel]
    /\ lsTranscript = <<>> /\ lsLastYaml = "" /\ now = StartTime
    /\ inflight = <<>> /\ everYaml = FALSE /\ history = <<"">>
    /\ phase = "mounted" /\ storageRaises = FALSE /\ exported = NoItem
    /\ parts = <<>> /\ returned = NoItem

SessionNext ==
    \/ \E d \in ClockSteps : ClockAdvance(d)
    \/ startSession
    \/ \E text \in UserTexts : sendUser(text)
    \/ \E i \in 1..Len(inflight), r \in SessionReplies : CallResolves(i, r)
    \/ \E i \in 1..Len(inflight), m \in CallErrors : CallRejects(i, m)
    \/ resetSession
    \/ ToggleDrawer

SessionSpec == SessionInit /\ [][SessionNext]_vars

\* ------------------------------------------------------------------------
\* The settings form, the exports and the calls of a freshly loaded page
\* ------------------------------------------------------------------------

\* the endpoints typed into the form: none, the hosted provider, and a local
\* one written with a slash at its end
KeyBaseUrls == {"", DefaultBaseUrl, "http://h/v1/"}

KeyNext ==
    \/ \E v \in KeyBaseUrls : setBaseUrl(v)
    \/ \E v \in {"", DefaultModel} : setModel(v)
    \/ \E v \in CfgApiKeys : setApiKey(v)
    \/ handleSaveSettings
    \/ \E sink \in {"clipboard", "prompt"} : copyMagicLink(sink)
    \/ downloadConfig
    \/ startSession
    \/ \E i \in 1..Len(inflight), r \in AssistantReplies : CallResolves(i, r)
    \/ \E i \in 1..Len(inflight), m \in CallErrors : CallRejects(i, m)

KeySpec == Init /\ [][KeyNext]_vars

\* ------------------------------------------------------------------------
\* Properties
\* ------------------------------------------------------------------------

\* the texts of UserTexts that are the toggle command: the word STATE in any
\* letter case once trimmed
ToggleTexts == {" State "}

\* the texts of UserTexts that are blank
BlankTexts == {" \n"}

\* the trimmed inner text of the last qualifying block of ReplyWithState
StateYaml == "STATE:\n  progress: {current_stage:0, stages_total:8}"

SeedMessages ==
    <<[role |-> "system", content |-> CONTROLLER_PROMPT],
      [role |-> "user", content |-> "Start. Please begin at Stage 0."]>>

Elapsed == now - lastActionRef

SessionCleared == messages = <<>> /\ lastYaml = "" /\ ~drawerOpen

\* a start or a submission that changes something
ActsOnStartOrSend ==
    /\ startSession \/ \E t \in UserTexts : sendUser(t)
    /\ vars' # vars

\* C1: with ExtractedState present and non-blank and no call in flight, an
\* accepted submission of the toggle command is carried out locally: it flips
\* Visibility once, invokes no outbound call and leaves the messages and
\* ExtractedState as they were.
C1_ToggleIsLocal ==
    \A t \in ToggleTexts :
        (~busy /\ inflight = <<>> /\ Elapsed >= DebounceMs /\ Trim(lastYaml) # "")
        => /\ ENABLED (sendUser(t) /\ drawerOpen' = ~drawerOpen)
           /\ ~ENABLED (sendUser(t) /\ ~(/\ inflight' = inflight
                                         /\ drawerOpen' = ~drawerOpen
                                         /\ messages' = messages
                                         /\ lastYaml' = lastYaml))

\* C1 witness: NEXT was answered with a state block (drawer shown), and a second
\* accepted action 300 ms later hid the drawer without a message, a call or an
\* error.
C1_Witness ==
    /\ messages = <<[role |-> "user", content |-> "NEXT"],
                    [role |-> "assistant", content |-> ReplyWithState]>>
    /\ lastYaml = StateYaml
    /\ ~drawerOpen
    /\ ~busy
    /\ error = ""
    /\ lastActionRef = StartTime + DebounceMs

\* C2: the completion of a call that was in flight when the session was reset is
\* discarded: if the session is still cleared when the call settles, it is still
\* cleared afterwards.
C2_StaleReplyDiscarded ==
    [][\A i \in 1..Len(inflight) :
          (/\ \/ \E r \in AssistantReplies : CallResolves(i, r)
              \/ \E m \in CallErrors : CallRejects(i, m)
           /\ inflight[i].stale
           /\ SessionCleared)
          => SessionCleared']_vars

\* C3: a failed call appends nothing and leaves ExtractedState and Visibility
\* alone; unless reset or the drawer control acted meanwhile, the messages are
\* then the messages before the submission plus the one user message (the two
\* seeded messages for a failed start), and ExtractedState and Visibility are
\* those before the submission.
C3_FailureKeepsUserMessage ==
    [][\A i \in 1..Len(inflight) : \A m \in CallErrors :
          CallRejects(i, m) =>
              LET c == inflight[i]
              IN /\ messages' = messages
                 /\ lastYaml' = lastYaml
                 /\ drawerOpen' = drawerOpen
                 /\ ~c.touched =>
                        /\ messages' =
                               IF c.kind = "start" THEN SeedMessages
                               ELSE Append(c.before.messages,
                                           [role |-> "user", content |-> c.text])
                        /\ lastYaml' = c.before.lastYaml
                        /\ drawerOpen' = c.before.drawerOpen]_vars

\* C3 witness: the toggle command was sent in a fresh session, the call failed,
\* and the only message is that user message.
C3_Witness ==
    /\ messages = <<[role |-> "user", content |-> " State "]>>
    /\ error \in CallErrors
    /\ ~busy
    /\ inflight = <<>>
    /\ lastYaml = ""

\* C4: at most one outbound call is in flight, and while one is, no start and no
\* submission changes anything.
C4_OneCallInFlight ==
    /\ Len(inflight) <= 1
    /\ Len(inflight) = 1 => busy /\ ~ENABLED ActsOnStartOrSend

\* C4 witness: a call is in flight, the session was reset meanwhile, and the
\* debounce window has passed.
C4_Witness ==
    /\ Len(inflight) = 1
    /\ inflight[1].stale
    /\ messages = <<>>
    /\ Elapsed >= DebounceMs

\* C5: a successful reply without a qualifying block to a submission that is not
\* the toggle command leaves ExtractedState and Visibility as they are.
C5_NoBlockKeepsState ==
    [][\A i \in 1..Len(inflight) :
          (/\ CallResolves(i, ReplyPlain)
           /\ inflight[i].kind = "send"
           /\ inflight[i].text \notin ToggleTexts)
          => lastYaml' = lastYaml /\ drawerOpen' = drawerOpen]_vars

\* C6: a successful reply with a qualifying block stores the last block as
\* ExtractedState, shows it, appends the reply as the last message, and the
\* derived progress is the one the block carries (stage 0 of 8).
C6_BlockReplyStoresState ==
    [][\A i \in 1..Len(inflight) :
          CallResolves(i, ReplyWithState) =>
              /\ lastYaml' = StateYaml
              /\ drawerOpen'
              /\ messages' = Append(messages,
                                    [role |-> "assistant", content |-> ReplyWithState])
              /\ stageInfo' = [current |-> <<0>>, total |-> 8]]_vars

\* C6 witness: start() was answered with the state block.
C6_Witness ==
    /\ messages = SeedMessages \o <<[role |-> "assistant", content |-> ReplyWithState]>>
    /\ lastYaml = StateYaml
    /\ drawerOpen
    /\ stageInfo = [current |-> <<0>>, total |-> 8]
    /\ ~busy

\* C7: a successful reply without a qualifying block to the toggle command
\* leaves ExtractedState absent and Visibility false.
C7_ToggleWithoutBlockHides ==
    [][\A i \in 1..Len(inflight) :
          (/\ CallResolves(i, ReplyPlain)
           /\ inflight[i].kind = "send"
           /\ inflight[i].text \in ToggleTexts)
          => lastYaml' = "" /\ ~drawerOpen']_vars

\* C7 witness: the toggle command went to the endpoint and came back without a
\* block.
C7_Witness ==
    /\ messages = <<[role |-> "user", content |-> " State "],
                    [role |-> "assistant", content |-> ReplyPlain]>>
    /\ lastYaml = ""
    /\ ~drawerOpen
    /\ ~busy

\* C8 (as stated): Visibility is true only if an ExtractedState has existed
\* since the session began.
C8_VisibleOnlyAfterState == drawerOpen => everYaml

\* C8 (amended): Visibility turns true only by the drawer's Show/Hide control
\* or in a step that leaves an ExtractedState present.
C8_VisibleByStateOrDrawer ==
    [][(drawerOpen' /\ ~drawerOpen) => (ToggleDrawer \/ lastYaml' # "")]_vars

\* C8 witness: the drawer is shown in a session that never had an ExtractedState.
C8_Witness == drawerOpen /\ ~everYaml /\ hasSession

ResetEffect == SessionCleared' /\ UNCHANGED <<apiKey, baseUrl, model, lsSettings>>

\* C9 (as stated): reset is accepted in every state, clears the session and
\* leaves the Settings alone.
C9_ResetAlwaysAccepted == ENABLED (resetSession /\ ResetEffect)

\* C9 (amended): reset is accepted whenever there are messages, a call in
\* flight or not; it clears the session and leaves the Settings alone.
C9_ResetAcceptedInSession ==
    /\ hasSession => ENABLED (resetSession /\ ResetEffect)
    /\ ~ENABLED (resetSession /\ ~ResetEffect)

\* C9 witness: the session was reset while the call was in flight, with
\* settings saved earlier.
C9_Witness ==
    /\ busy
    /\ Len(inflight) = 1
    /\ inflight[1].stale
    /\ SessionCleared
    /\ lsSettings # NoItem
    /\ apiKey # ""

\* C10: a start or submission less than 300 ms after the accepted one changes
\* nothing; 300 ms or more after it, it passes the guard and its time becomes
\* the accepted one.
C10_Debounce ==
    /\ Elapsed < DebounceMs => ~ENABLED ActsOnStartOrSend
    /\ (Elapsed >= DebounceMs /\ ~busy) =>
           /\ \A t \in UserTexts \ BlankTexts :
                  /\ ENABLED (sendUser(t) /\ lastActionRef' = now)
                  /\ ~ENABLED (sendUser(t) /\ lastActionRef' # now)
           /\ ~hasSession => ENABLED (startSession /\ lastActionRef' = now)

\* C10 witness: two submissions were accepted, the second exactly 300 ms after
\* the first.
C10_Witness ==
    /\ Len(messages) = 2
    /\ messages[1].role = "user"
    /\ messages[2].role = "user"
    /\ lastActionRef = StartTime + DebounceMs

\* the endpoints of BaseUrls that name the hosted provider openai.com
OpenAiUrls == {"https://api.openai.com/v1"}

\* the configuration is refused: no endpoint, or the hosted provider without a key
ConfigInvalid == baseUrl = "" \/ (baseUrl \in OpenAiUrls /\ apiKey = "")

ConfigMessage ==
    IF baseUrl = "" THEN "Base URL is required" ELSE "API key required for OpenAI base URL"

\* the submission of t is the toggle command that sendUser carries out locally
HandledLocally(t) == t \in ToggleTexts /\ Trim(lastYaml) # ""

SessionUntouched ==
    /\ messages' = messages
    /\ lastYaml' = lastYaml
    /\ drawerOpen' = drawerOpen
    /\ inflight' = inflight

\* C11 (as stated): under a refused configuration every start and every
\* submission that does anything invokes no call and leaves the messages,
\* ExtractedState and Visibility unchanged.
C11_ConfigErrorChangesOnlyError ==
    [][(ConfigInvalid /\ ActsOnStartOrSend) => SessionUntouched]_vars

\* C11 (amended): under a refused configuration no start and no submission
\* issues a call; an accepted start, and an accepted submission other than the
\* toggle command carried out locally, sets the error message and leaves the
\* messages, ExtractedState and Visibility unchanged.  The toggle command
\* carried out locally (ExtractedState non-blank) still flips Visibility.
C11_ConfigErrorRefusesCall ==
    ConfigInvalid =>
        /\ ~ENABLED (ActsOnStartOrSend /\ inflight' # inflight)
        /\ ~ENABLED (startSession /\ vars' # vars
                     /\ ~(SessionUntouched /\ error' = ConfigMessage))
        /\ \A t \in UserTexts \ BlankTexts :
               IF HandledLocally(t)
               THEN ~ENABLED (sendUser(t) /\ vars' # vars
                              /\ ~(drawerOpen' = ~drawerOpen /\ error' = error))
               ELSE /\ ~ENABLED (sendUser(t) /\ vars' # vars
                                 /\ ~(SessionUntouched /\ error' = ConfigMessage))
                    /\ (~busy /\ Elapsed >= DebounceMs) =>
                           ENABLED (sendUser(t) /\ SessionUntouched
                                    /\ error' = ConfigMessage)
        /\ (~busy /\ Elapsed >= DebounceMs /\ ~hasSession) =>
               ENABLED (startSession /\ SessionUntouched /\ error' = ConfigMessage)

\* C11 witness: with ExtractedState shown, the endpoint was emptied and a
\* submission was refused with the error message, the session as it was.
C11_Witness ==
    /\ error = "Base URL is required"
    /\ baseUrl = ""
    /\ lastYaml = StateYaml
    /\ drawerOpen
    /\ Len(messages) = 3
    /\ inflight = <<>>
    /\ lastActionRef = StartTime + DebounceMs

\* ------------------------------------------------------------------------
\* Links opened in a new tab
\* ------------------------------------------------------------------------

\* the step that mounts the page
Mounts == phase = "loading" /\ phase' = "mounted"

\* the fragment of the link that the Magic Link button builds from cfg
LinkFragment(cfg) == FragmentOfConfig[cfg]

\* what the form shows for an endpoint or a model that went through a link
AfterLink(v, default) ==
    IF v = "" THEN default
    ELSE IF v = " http://h/v1\n" THEN "http://h/v1"
    ELSE v

\* C12 (as stated): loading the link built from a record yields the record,
\* equal in all three fields, for every record of LinkConfigs (empty fields,
\* fields with white space around them, fields with + / =).
C12_RoundTripExact ==
    [][Mounts =>
           \A cfg \in LinkConfigs :
               locationHash = LinkFragment(cfg) =>
                   /\ baseUrl' = cfg.baseUrl
                   /\ model' = cfg.model
                   /\ apiKey' = cfg.apiKey]_vars

\* C12 (amended): loading the link built from a record yields apiKey exactly
\* as it was, and baseUrl and model with the white space around them removed;
\* a baseUrl or model that is empty comes back as the default of the form.
C12_RoundTripTrimmed ==
    [][Mounts =>
           \A cfg \in LinkConfigs :
               locationHash = LinkFragment(cfg) =>
                   /\ baseUrl' = AfterLink(cfg.baseUrl, DefaultBaseUrl)
                   /\ model' = AfterLink(cfg.model, DefaultModel)
                   /\ apiKey' = cfg.apiKey]_vars

\* C12 witness: the page was loaded from the link of a record whose endpoint
\* has white space around it and whose model and key hold + / = and quotes.
C12_Witness ==
    /\ phase = "mounted"
    /\ baseUrl = "http://h/v1"
    /\ model = "^+/=?>?"
    /\ apiKey = " k+/=\"\\>?>? "
    /\ locationHash = ""

\* fragments whose token leaves the token alphabet ({ then *, no digit at
\* all), whose payload is no JSON text (notjson, five digits, the byte 128) or
\* has not the shape of a configuration (5, null, {})
BadLinks ==
    {"#cfg=e3*0", "#cfg=!!!", "#cfg=bm90anNvbg", "#cfg=abcde", "#cfg=gA",
     "#cfg=NQ", "#cfg=bnVsbA", "#cfg=e30"}

\* the settings of the form after a load that reads no link
LoadedWithoutLink ==
    IF storageRaises \/ lsSettings \in {NoItem, Unparseable}
    THEN apiKey' = "" /\ baseUrl' = DefaultBaseUrl /\ model' = DefaultModel
    ELSE /\ apiKey' = lsSettings.apiKey
         /\ baseUrl' = (IF lsSettings.baseUrl = "" THEN DefaultBaseUrl ELSE lsSettings.baseUrl)
         /\ model' = (IF lsSettings.model = "" THEN DefaultModel ELSE lsSettings.model)

\* C13: a load whose fragment is one of BadLinks goes on as if there were no
\* link: the settings of the form are those of a load without a link, and the
\* persisted settings and the fragment are as they were.
C13_BadLinkIgnored ==
    [][(Mounts /\ locationHash \in BadLinks) =>
           /\ LoadedWithoutLink
           /\ lsSettings' = lsSettings
           /\ history' = history]_vars

\* fragments written by hand that carry the token of FullConfig
FullLinks == {"#cfg=" \o FullToken, "#a=1&cfg=" \o FullToken}

FullConfig == [baseUrl |-> "http://h/v1", model |-> "^+/=?>?", apiKey |-> "sk-1"]

\* the load took cfg from the link: it is in the form and in the settings
\* slot, the entry of the history was replaced and holds no fragment
LinkConsumed(cfg) ==
    /\ baseUrl' = cfg.baseUrl /\ model' = cfg.model /\ apiKey' = cfg.apiKey
    /\ lsSettings' = [apiKey |-> cfg.apiKey, baseUrl |-> cfg.baseUrl, model |-> cfg.model]
    /\ Len(history') = Len(history)
    /\ \A i \in 1..(Len(history) - 1) : history'[i] = history[i]
    /\ locationHash' = ""
    /\ parseMagicLinkFromHash(locationHash', FirstRender) = None

\* C14: a load whose fragment carries a decodable token applies the decoded
\* configuration to the settings and replaces the current history entry by
\* one without fragment (no entry is added); a second decode yields absent.
C14_LinkConsumedOnLoad ==
    [][Mounts =>
           /\ locationHash \in FullLinks => LinkConsumed(FullConfig)
           /\ \A cfg \in LinkConfigs :
                  locationHash = LinkFragment(cfg) =>
                      LinkConsumed([baseUrl |-> AfterLink(cfg.baseUrl, DefaultBaseUrl),
                                    model |-> AfterLink(cfg.model, DefaultModel),
                                    apiKey |-> cfg.apiKey])]_vars

\* C14 witness: the page was loaded from a link written by hand; its
\* configuration is in the form and in the settings slot and the address has
\* no fragment left.
C14_Witness ==
    /\ phase = "mounted"
    /\ [baseUrl |-> baseUrl, model |-> model, apiKey |-> apiKey] = FullConfig
    /\ lsSettings = [apiKey |-> "sk-1", baseUrl |-> "http://h/v1", model |-> "^+/=?>?"]
    /\ history = <<"">>

\* fragments written by hand whose record names the model only, or names the
\* model next to a baseUrl of one space and an empty apiKey
PatchLinks ==
    {"#cfg=eyJtb2RlbCI6IsOpKy89Pz4_In0",
     "#cfg=eyJiYXNlVXJsIjoiICIsIm1vZGVsIjoiw6krLz0_Pj8iLCJhcGlLZXkiOiIifQ"}

\* C15: a link that omits or blanks baseUrl and apiKey is a patch over the
\* settings loaded from the settings slot: the load takes the model from the
\* link and keeps baseUrl and apiKey, in the form and in the slot.
C15_LinkPatchesLoadedSettings ==
    [][(Mounts /\ locationHash \in PatchLinks /\ lsSettings \in StoredSettings
               /\ lsSettings \notin {NoItem, Unparseable}) =>
           /\ model' = "^+/=?>?"
           /\ apiKey' = lsSettings.apiKey
           /\ baseUrl' = lsSettings.baseUrl
           /\ lsSettings' = [lsSettings EXCEPT !.model = "^+/=?>?"]]_vars

\* C18: a read of a slot that is missing or corrupt, or from a storage that
\* raises, yields absent and signals nothing: the page mounts, with no
\* messages, no ExtractedState and the default settings where the slot could
\* not be read.
C18_ReadsFailSoft ==
    [][(phase = "loading" /\ phase' # "loading" /\ lsTranscript # NotAList) =>
           /\ phase' = "mounted"
           /\ (storageRaises \/ lsTranscript \in {NoItem, Unparseable}) => messages' = <<>>
           /\ (storageRaises \/ lsLastYaml = "") => lastYaml' = ""
           /\ ((storageRaises \/ lsSettings \in {NoItem, Unparseable})
                   /\ locationHash \in {"", "#top"}) =>
                  /\ apiKey' = ""
                  /\ baseUrl' = "https://api.openai.com/v1"
                  /\ model' = "gpt-4o-mini"]_vars

\* ------------------------------------------------------------------------
\* extractStateYaml on replies made of fenced blocks
\* ------------------------------------------------------------------------

\* the page as Init leaves it, for the specifications of the text functions
PageAtRest ==
    /\ apiKey = "" /\ baseUrl = DefaultBaseUrl /\ model = DefaultModel
    /\ messages = <<>> /\ busy = FALSE /\ error = "" /\ lastActionRef = 0
    /\ drawerOpen = FALSE /\ lastYaml = "" /\ lsSettings = NoItem
    /\ lsTranscript = <<>> /\ lsLastYaml = "" /\ now = StartTime
    /\ inflight = <<>> /\ everYaml = FALSE /\ history = <<"">>
    /\ phase = "mounted" /\ storageRaises = FALSE /\ exported = NoItem

\* a reply has at most this many fenced blocks
MaxBlocks == 2

\* the info string after the opening fence
BlockTags == {"", "yaml", "c++"}

\* what is between the fences of a block; the first two hold a STATE line
BlockInners == {"STATE:\n a\n", "  STATE : b \n", "x: 1\n"}

\* what follows the closing fence of a block
BlockTails == {"\n", "\nNote STATE: none\n"}

Blocks == [tag : BlockTags, inner : BlockInners, tail : BlockTails]

\* the text of a reply made of the blocks bs
RECURSIVE ReplyOf(_)
ReplyOf(bs) ==
    IF bs = <<>> THEN ""
    ELSE Fence \o Head(bs).tag \o "\n" \o Head(bs).inner \o Fence \o Head(bs).tail
         \o ReplyOf(Tail(bs))

ExtractInit ==
    /\ PageAtRest
    /\ parts \in UNION {[1..n -> Blocks] : n \in 0..MaxBlocks}
    /\ returned = NoItem

\* extractStateYaml is applied to the reply
ExtractCalled ==
    /\ returned = NoItem
    /\ returned' = ExtractStateYaml(ReplyOf(parts))
    /\ UNCHANGED <<apiKey, baseUrl, model, lsSettings, now, sessionVars, history, phase,
                   storageRaises, exported, parts>>

ExtractSpec == ExtractInit /\ [][ExtractCalled]_vars

\* the inner text of the last block of bs that holds a STATE line, with the
\* white space around it removed
LastQualifying(bs) ==
    LET q == {i \in 1..Len(bs) : bs[i].inner \in {"STATE:\n a\n", "  STATE : b \n"}}
    IN IF q = {} THEN [found |-> FALSE, text |-> ""]
       ELSE [found |-> TRUE,
             text |-> IF bs[SetMax(q)].inner = "STATE:\n a\n" THEN "STATE:\n a"
                      ELSE "STATE : b"]

\* C16: for a reply that is a sequence of well-closed fenced blocks,
\* extraction yields absent if no block holds a STATE line and otherwise the
\* trimmed inner text of the last block that holds one.
C16_LastQualifyingBlock ==
    returned # NoItem => returned = LastQualifying(parts)

\* ------------------------------------------------------------------------
\* parseStageProgress on texts with one progress mapping
\* ------------------------------------------------------------------------

\* the largest stage number written into a text
MaxStage == 12

\* n in decimal digits
RECURSIVE NumberText(_)
NumberText(n) ==
    IF n < 10 THEN At(Digits, n + 1)
    ELSE NumberText(n \div 10) \o NumberText(n % 10)

\* the entries a progress mapping may hold
Entries ==
    [key : {"current_stage"}, num : {0, 3, MaxStage}]
    \cup [key : {"stages_total"}, num : {8, MaxStage + 1}]
    \cup [key : {"state_visible"}, num : {0}]

\* the entries of a mapping in the order they are written, no key twice
Mappings ==
    {es \in UNION {[1..n -> Entries] : n \in 0..3} :
        \A i, j \in 1..Len(es) : es[i].key = es[j].key => i = j}

\* what is written before and after the mapping
Prefixes == {"STATE:\n  ", ""}

Suffixes == {"\nactions: {}", "\nlast: {current_stage: 9, stages_total: 9}"}

\* key:value or key: value
RECURSIVE EntriesText(_, _)
EntriesText(es, space) ==
    IF es = <<>> THEN ""
    ELSE Head(es).key \o ":" \o space
         \o (IF Head(es).key = "state_visible" THEN "false" ELSE NumberText(Head(es).num))
         \o (IF Len(es) > 1 THEN ", " ELSE "")
         \o EntriesText(Tail(es), space)

\* the text of a state, absent (found = FALSE) or empty for no entries at all
YamlOf(p) ==
    IF p.kind = "absent" THEN [found |-> FALSE, text |-> ""]
    ELSE IF p.kind = "empty" THEN [found |-> TRUE, text |-> ""]
    ELSE [found |-> TRUE,
          text |-> p.prefix \o "progress:" \o p.space \o "{"
                   \o EntriesText(p.entries, p.space) \o "}" \o p.suffix]

ProgressInit ==
    /\ PageAtRest
    /\ parts \in [kind : {"text"}, prefix : Prefixes, space : {"", " "},
                  entries : Mappings, suffix : Suffixes]
                 \cup [kind : {"absent", "empty"}, prefix : {""}, space : {""},
                       entries : {<<>>}, suffix : {""}]
    /\ returned = NoItem

\* parseStageProgress is applied to the text
ProgressCalled ==
    /\ returned = NoItem
    /\ returned' = parseStageProgress(YamlOf(parts))
    /\ UNCHANGED <<apiKey, baseUrl, model, lsSettings, now, sessionVars, history, phase,
                   storageRaises, exported, parts>>

ProgressSpec == ProgressInit /\ [][ProgressCalled]_vars

\* the number the entry with this key holds, None if there is no such entry
EntryOf(es, key) ==
    IF \E i \in 1..Len(es) : es[i].key = key
    THEN <<es[CHOOSE i \in 1..Len(es) : es[i].key = key].num>>
    ELSE <<>>

\* C17: parseStageProgress returns current absent and total 8 for an absent
\* or empty text; for a text with a progress mapping, current is its
\* current_stage, absent if it has none, and total is its stages_total, 8 if
\* it has none.
C17_ProgressOfMapping ==
    returned # NoItem =>
        /\ returned.current = EntryOf(parts.entries, "current_stage")
        /\ returned.total = IF EntryOf(parts.entries, "stages_total") = <<>> THEN 8
                            ELSE EntryOf(parts.entries, "stages_total")[1]

\* C17 witness: the mapping holds current_stage 3 after state_visible and no
\* stages_total, and another mapping with both keys follows it; the result is
\* current 3 and total 8.
C17_Witness ==
    /\ returned = [current |-> <<3>>, total |-> 8]
    /\ parts.kind = "text"
    /\ Len(parts.entries) = 2
    /\ parts.entries[1].key = "state_visible"
    /\ parts.suffix = "\nlast: {current_stage: 9, stages_total: 9}"

\* ------------------------------------------------------------------------
\* Where the key goes
\* ------------------------------------------------------------------------

\* t occurs in text
HoldsText(text, t) == \E i \in 1..Len(text) : StartsAt(text, i, t)

\* the link and the file of the settings {http://h/v1/, gpt-4o-mini, sk-1}
KeyLink ==
    "https://usalocklento.github.io/ack-precalc/#cfg="
    \o "eyJiYXNlVXJsIjoiaHR0cDovL2gvdjEvIiwibW9kZWwiOiJncHQtNG8tbWluaSIsImFwaUtleSI6InNrLTEifQ"

KeyFile == "{\n  \"baseUrl\": \"http://h/v1/\",\n  \"model\": \"gpt-4o-mini\",\n  \"apiKey\": \"sk-1\"\n}"

KeySettings ==
    baseUrl = "http://h/v1/" /\ model = "gpt-4o-mini" /\ apiKey = "sk-1"

\* C19 (as stated): the key goes to the Authorization header of the calls and
\* to the settings slot and nowhere else: nothing handed to the clipboard, to
\* a prompt or to a download holds it, in clear or inside a link.
C19_KeyOnlyInHeader ==
    (exported # NoItem /\ KeySettings) =>
        /\ ~HoldsText(exported.text, "sk-1")
        /\ exported.text # KeyLink

\* C19 (amended): every call is addressed to the baseUrl of the settings it
\* was issued with (a slash at its end dropped), carries the key as Bearer
\* credential in its Authorization header (no header for an empty key) and
\* holds it neither in its address nor in its body; the transcript slot and
\* the state slot do not hold it.  The Magic Link and Export buttons hand out
\* the link and the file of the settings, which hold the key.  Whether the
\* key is empty shows on other channels: for the hosted provider a start with
\* an empty key issues no call and one with a key does.
C19_KeyInHeaderAndExports ==
    /\ \A i \in 1..Len(inflight) :
           LET c == inflight[i]
               q == Request(c)
           IN /\ q.url = (IF c.baseUrl = "http://h/v1/" THEN "http://h/v1"
                          ELSE c.baseUrl) \o "/chat/completions"
              /\ q.authorization = (IF c.apiKey = "" THEN "" ELSE "Bearer " \o c.apiKey)
              /\ q.body = [model |-> c.model, messages |-> c.messages]
              /\ c.apiKey # "" =>
                     /\ ~HoldsText(q.url, c.apiKey)
                     /\ ~HoldsText(q.body.model, c.apiKey)
                     /\ \A k \in 1..Len(q.body.messages) :
                            ~HoldsText(q.body.messages[k].content, c.apiKey)
    /\ apiKey # "" =>
           /\ ~HoldsText(lsLastYaml, apiKey)
           /\ \A k \in 1..Len(lsTranscript) : ~HoldsText(lsTranscript[k].content, apiKey)
    /\ (exported # NoItem /\ KeySettings) =>
           exported.text = (IF exported.sink = "download" THEN KeyFile ELSE KeyLink)
    /\ (baseUrl = "https://api.openai.com/v1" /\ ~hasSession /\ ~busy
            /\ now - lastActionRef >= DebounceMs) =>
           (apiKey # "" <=> ENABLED (startSession /\ inflight' # inflight))

\* C19 witness: a call issued with the key sk-1 to the local endpoint is in
\* flight, and the Export button has just written the file of the settings.
C19_Witness ==
    /\ Len(inflight) = 1
    /\ inflight[1].apiKey = "sk-1"
    /\ inflight[1].baseUrl = "http://h/v1/"
    /\ KeySettings
    /\ exported # NoItem
    /\ exported.sink = "download"

\* ------------------------------------------------------------------------
\* ExtractedState and the replies of the session
\* ------------------------------------------------------------------------

\* the last qualifying block of each reply that has one
LastBlockOf(reply) ==
    IF reply = ReplyWithNewState
    THEN "STATE:\n  progress: {current_stage:1, stages_total:8}"
    ELSE "STATE:\n  progress: {current_stage:0, stages_total:8}"

\* the positions of the assistant replies in messages that hold a qualifying block
RepliesWithBlock ==
    {i \in 1..Len(messages) :
        /\ messages[i].role = "assistant"
        /\ messages[i].content \in {ReplyWithState, ReplyWithNewState}}

\* C20: whenever ExtractedState is present, it is the last qualifying block
\* of the most recent assistant reply in messages that holds one.
C20_StateOfLatestReply ==
    lastYaml # "" =>
        /\ RepliesWithBlock # {}
        /\ lastYaml = LastBlockOf(messages[SetMax(RepliesWithBlock)].content)

\* C20 witness: two replies with a qualifying block were received, the later
\* one with the state of the next stage, which is ExtractedState.
C20_Witness ==
    /\ Len(messages) = 5
    /\ messages[3].content = ReplyWithState
    /\ messages[5].content = ReplyWithNewState
    /\ lastYaml = "STATE:\n  progress: {current_stage:1, stages_total:8}"

\* ------------------------------------------------------------------------
\* The message sequence and the calls
\* ------------------------------------------------------------------------

\* s is an initial part of t
IsPrefixOf(s, t) == Len(s) <= Len(t) /\ SubSeq(t, 1, Len(s)) = s

\* the positions of messages that hold a message with role system
SystemAt == {i \in 1..Len(messages) : messages[i].role = "system"}

\* C21: every step other than a reset leaves the message sequence it found as
\* an initial part of the new one, and in every state a message with role
\* system occurs at most once and only as the first message.
C21_AppendOnlySystemFirst ==
    /\ [](SystemAt \subseteq {1})
    /\ [][resetSession \/ IsPrefixOf(messages, messages')]_vars

\* C21 witness: the seed, a reply and a submission after it: four messages,
\* the system message first, and the call of the submission in flight.
C21_Witness ==
    /\ Len(messages) = 4
    /\ SystemAt = {1}
    /\ messages[3].role = "assistant"
    /\ messages[4] = [role |-> "user", content |-> "NEXT"]
    /\ Len(inflight) = 1

\* C22: every message sequence handed to callChatCompletions begins with the
\* system message of the controller instructions, also for a submission made
\* while there is no session.
C22_CallsBeginWithSystem ==
    \A i \in 1..Len(inflight) :
        /\ inflight[i].messages # <<>>
        /\ inflight[i].messages[1] = [role |-> "system", content |-> CONTROLLER_PROMPT]

\* the step is a submission of t that does something
Submits(t) == sendUser(t) /\ vars' # vars

\* C23: a submission of t that is accepted, is not the toggle command carried
\* out locally and passes the test of the settings appends exactly one user
\* message with the text t as submitted and issues one call, which receives
\* the message sequence ending with that message.
C23_SubmissionAppendsThenCalls ==
    [][\A t \in UserTexts :
           (Submits(t) /\ ~HandledLocally(t) /\ ~ConfigInvalid) =>
               /\ messages' = Append(messages, [role |-> "user", content |-> t])
               /\ Len(inflight') = Len(inflight) + 1
               /\ inflight'[Len(inflight')].messages = messages'
               /\ \A i \in 1..Len(inflight) : inflight'[i] = inflight[i]]_vars

\* C23 witness: after the seed and a reply without state, the toggle command
\* was submitted with white space around it: it is the last message, as
\* submitted, and its call is in flight with the four messages.
C23_Witness ==
    /\ Len(messages) = 4
    /\ messages[3] = [role |-> "assistant", content |-> ReplyPlain]
    /\ messages[4] = [role |-> "user", content |-> " State "]
    /\ lastYaml = ""
    /\ Len(inflight) = 1
    /\ inflight[1].messages = messages

\* ------------------------------------------------------------------------
\* After a failure
\* ------------------------------------------------------------------------

\* the messages of the two configuration errors
ConfigMessages == {"Base URL is required", "API key required for OpenAI base URL"}

\* a step that completes a call, or one that raises a configuration error
CompletesOrRefuses ==
    \/ Len(inflight') < Len(inflight)
    \/ error' \in ConfigMessages /\ lastActionRef' = now /\ lastActionRef # now

\* C24: when a call completes, by success or by failure, and when a
\* configuration error is raised, busy is false afterwards; busy never stays
\* true for ever once the call settles, and with busy false every submission
\* that is not blank is accepted outside the debounce window, as is a start
\* while there is no session.
C24_NoPathBlocks ==
    /\ busy ~> ~busy
    /\ [][CompletesOrRefuses => ~busy']_vars
    /\ [](~busy /\ now - lastActionRef >= DebounceMs =>
             /\ \A t \in UserTexts \ BlankTexts : ENABLED (sendUser(t) /\ vars' # vars)
             /\ ~hasSession => ENABLED (startSession /\ vars' # vars))

\* C24 witness: a start was refused with a configuration error; busy is false
\* and the debounce window has passed again.
C24_Witness ==
    /\ error = "API key required for OpenAI base URL"
    /\ ~busy
    /\ messages = <<>>
    /\ lastActionRef = StartTime
    /\ now = StartTime + DebounceMs

\* C25: after every handled event the transcript slot holds the message
\* sequence and the state slot holds ExtractedState, as they are after the
\* event; a reset leaves both slots empty.
C25_SlotsFollowMemory ==
    /\ [](lsTranscript = messages /\ lsLastYaml = lastYaml)
    /\ [][resetSession => (lsTranscript' = <<>> /\ lsLastYaml' = "")]_vars

\* C25 witness: the seed and a reply with the state of the next stage are in
\* memory and in the slots.
C25_Witness ==
    /\ Len(lsTranscript) = 3
    /\ lsTranscript[3] = [role |-> "assistant", content |-> ReplyWithNewState]
    /\ lsLastYaml = "STATE:\n  progress: {current_stage:1, stages_total:8}"
    /\ messages = lsTranscript
    /\ lastYaml = lsLastYaml

\* the failure of a call is shown and nothing was accepted since; the
\* settings pass the test
FailureShown == error \in CallErrors /\ ~busy /\ inflight = <<>> /\ ~ConfigInvalid

\* the submission of t is accepted and issues a call
Resubmits(t) == sendUser(t) /\ Len(inflight') = Len(inflight) + 1

\* C26 (as stated): right after a failure is shown, with no waiting period, a
\* submission is accepted and issues a new call.
C26_ResubmitAtOnce ==
    FailureShown =>
        \A t \in UserTexts \ BlankTexts : ~HandledLocally(t) => ENABLED Resubmits(t)

\* C26 (amended): after a failure is shown, a submission is accepted and
\* issues a new call once 300 ms have passed since the failed submission was
\* accepted, and changes nothing before that; no step issues more than one
\* call, and the step that surfaces the failure issues none.
C26_ResubmitAfterDebounce ==
    /\ [](FailureShown =>
             \A t \in UserTexts \ BlankTexts :
                 /\ (now - lastActionRef < DebounceMs) => ~ENABLED (sendUser(t) /\ vars' # vars)
                 /\ (now - lastActionRef >= DebounceMs /\ ~HandledLocally(t)) =>
                        ENABLED Resubmits(t))
    /\ [][/\ Len(inflight') <= Len(inflight) + 1
          /\ error' \in CallErrors /\ error' # error => Len(inflight') < Len(inflight)]_vars

\* C26 witness: the call of the start failed and, 300 ms after the start, a
\* question was submitted: it follows the seed and its call is in flight.
C26_Witness ==
    /\ Len(messages) = 3
    /\ messages[1].role = "system"
    /\ messages[3] = [role |-> "user", content |-> "my state?"]
    /\ Len(inflight) = 1
    /\ inflight[1].kind = "send"
    /\ error = ""
    /\ lastActionRef = StartTime + DebounceMs

\* ------------------------------------------------------------------------
\* parseStageProgress on texts with two progress mappings
\* ------------------------------------------------------------------------

\* an earlier state quoted after the mapping, with a progress mapping of its
\* own
LaterMappings ==
    {"\nprevious:\n  progress: {current_stage: 9, stages_total: 9}",
     "\nprevious:\n  progress: {current_stage: 9}"}

PairInit ==
    /\ PageAtRest
    /\ parts \in [kind : {"text"}, prefix : Prefixes, space : {"", " "},
                  entries : Mappings, suffix : LaterMappings]
    /\ returned = NoItem

PairSpec == PairInit /\ [][ProgressCalled]_vars

\* C27: for a text with two progress mappings both fields are read from the
\* first one: current is its current_stage, absent if it has none, and total
\* is its stages_total, 8 if it has none, whatever the second mapping holds.
C27_BothFromFirstMapping ==
    (returned # NoItem /\ parts.suffix \in LaterMappings) =>
        LET first == parts.entries
        IN /\ returned.current = EntryOf(first, "current_stage")
           /\ (EntryOf(first, "stages_total") = None => returned.total = DefaultStagesTotal)
           /\ (EntryOf(first, "stages_total") # None =>
                   Some(returned.total) = EntryOf(first, "stages_total"))

====
